---- MODULE Spec2Model ----
(***************************************************************************)
(* State-machine model of SmManager (rmdb/src/system/sm_manager.cpp): the  *)
(* catalog manager that keeps the in-memory schema db_, the table-handle   *)
(* registry fhs_ and the index-handle registry ihs_ in step with the files *)
(* of the current working directory.                                       *)
(*                                                                         *)
(* Every public method is an operator from a manager state s to the set of *)
(* results the call can have (more than one only where the code runs into  *)
(* undefined behaviour); the actions apply these operators.  A result      *)
(* carries the new state, the exception that left the method ("none" when  *)
(* it returned normally, "CRASH" when the process died) and the physical   *)
(* calls the method issued, in order.                                      *)
(*                                                                         *)
(* DbMeta/TabMeta, RmManager, IxManager and DiskManager are not part of    *)
(* sm_manager.cpp; they are modelled from the specification's sections 3,  *)
(* 4.1-4.3 and 6.  Operating-system failures of mkdir/chdir("..")/ofstream *)
(* are not modelled: the model's file system always has room.  Database,   *)
(* table and file names are plain and pairwise distinct from each other.   *)
(***************************************************************************)
EXTENDS Integers, Sequences, FiniteSets, TLC

VARIABLES cwd, fs, db_, fhs_, ihs_, crashed, last, nops

vars == <<cwd, fs, db_, fhs_, ihs_, crashed, last, nops>>

(* ------------------------------ bounds --------------------------------- *)
\* deepest nesting of database directories below the start directory
MaxDepth == 1
\* number of calls made on the manager in one run
MaxOps == 3

DbNames == {"d1"}
TabNames == {"t1", "t2"}

ColDef(n, t, l) == [name |-> n, type |-> t, len |-> l]

\* the tables handed to create_table: a name and its column definitions
TableDefs ==
  { <<"t1", <<ColDef("c1", "INT", 4), ColDef("c2", "STRING", 8), ColDef("c3", "INT", 2)>> >>,
    <<"t2", <<ColDef("c2", "STRING", 16)>> >> }

\* column name lists handed to create_index / drop_index
IxColLists == { <<>>, <<"c1">>, <<"c1", "c2">>, <<"c2", "c1">> }

(* ------------------------------ helpers -------------------------------- *)
Erase(f, k) == [x \in (DOMAIN f) \ {k} |-> f[x]]

\* std::map::operator[]= : insert or overwrite
Put(f, k, v) == [x \in (DOMAIN f) \cup {k} |-> IF x = k THEN v ELSE f[x]]

EmptyMap == [x \in {} |-> "null"]

RECURSIVE SumLen(_)
SumLen(cols) ==
  IF cols = <<>> THEN 0 ELSE cols[1].len + SumLen(Tail(cols))

RECURSIVE SetToSeq(_)
SetToSeq(S) ==
  IF S = {} THEN <<>>
  ELSE LET x == CHOOSE y \in S : TRUE IN <<x>> \o SetToSeq(S \ {x})

\* all orders in which an unordered container of keys S can be walked
Orders(S) ==
  { q \in [1..Cardinality(S) -> S] : \A i, j \in 1..Cardinality(S) : i # j => q[i] # q[j] }

IsPrefix(p, q) == Len(p) <= Len(q) /\ SubSeq(q, 1, Len(p)) = p

(* ------------------------------ metadata ------------------------------- *)
EmptyDb == [name_ |-> "", tabs_ |-> [x \in {} |-> 0]]

\* a default-constructed TabMeta
DefaultTab == [name |-> "", cols |-> <<>>, indexes |-> <<>>]

ColNames(cols) == [i \in 1..Len(cols) |-> cols[i].name]

\* DbMeta::is_table
is_table(db, tab) == tab \in DOMAIN db.tabs_

\* TabMeta::is_col / get_col : position of the column, 0 when absent
ColPos(tab, name) ==
  IF \E i \in 1..Len(tab.cols) : tab.cols[i].name = name
  THEN CHOOSE i \in 1..Len(tab.cols) :
         tab.cols[i].name = name /\ \A j \in 1..(i - 1) : tab.cols[j].name # name
  ELSE 0

\* TabMeta::get_index_meta : position of the first IndexMeta on these names
IndexPos(tab, names) ==
  IF \E i \in 1..Len(tab.indexes) : ColNames(tab.indexes[i].cols) = names
  THEN CHOOSE i \in 1..Len(tab.indexes) :
         /\ ColNames(tab.indexes[i].cols) = names
         /\ \A j \in 1..(i - 1) : ColNames(tab.indexes[j].cols) # names
  ELSE 0

RemoveAt(q, i) == SubSeq(q, 1, i - 1) \o SubSeq(q, i + 1, Len(q))

\* IxManager::get_index_name, by column names and by column metadata
get_index_name(tab, names) == <<tab, names>>

get_index_name_cols(tab, cols) == <<tab, ColNames(cols)>>

\* MetadataCodec: what operator<< leaves in the file, what operator>> reads back
WriteMeta(db) == [present |-> TRUE, name_ |-> db.name_, tabs_ |-> db.tabs_]

NoMeta == [present |-> FALSE, name_ |-> "", tabs_ |-> [x \in {} |-> 0]]

ReadMeta(m) == [name_ |-> m.name_, tabs_ |-> m.tabs_]

(* ------------------------------ results -------------------------------- *)
\* one physical call: what was called, on which table/database, on which
\* columns, the state of the handle it was given, and a size argument
Ev(c, t, cs, h, n) == [call |-> c, tab |-> t, cols |-> cs, h |-> h, n |-> n]

Ok(s) == [st |-> s, exc |-> "none", calls |-> <<>>]

Call(r, e) == [r EXCEPT !.calls = Append(@, e)]

Throw(r, e) == [r EXCEPT !.exc = e]

Running(r) == r.exc = "none"

\* a freshly created database directory holds nothing yet
NewDir == [meta |-> NoMeta, log |-> FALSE, recs |-> [x \in {} |-> 0], idxs |-> {}]

Dir(s) == s.fs[s.cwd]

SetDir(s, d) == [s EXCEPT !.fs = Put(s.fs, s.cwd, d)]

(* ------------------------ external collaborators ----------------------- *)
\* RmManager::close_file on the handle registered for tab.  A null handle is
\* dereferenced: the process dies or the call goes through without effect.
CloseFile(r, tab) ==
  LET h == r.st.fhs[tab]
      e == Ev("close_file", tab, <<>>, h, 0)
  IN CASE h = "open" -> { Call([r EXCEPT !.st.fhs[tab] = "closed"], e) }
       [] h = "closed" -> { Call(r, e) }
       [] OTHER -> { Throw(Call(r, e), "CRASH"), Call(r, e) }

\* IxManager::close_index on the handle registered under key = <<tab, names>>
CloseIndex(r, key) ==
  LET h == r.st.ihs[key]
      e == Ev("close_index", key[1], key[2], h, 0)
  IN CASE h = "open" -> { Call([r EXCEPT !.st.ihs[key] = "closed"], e) }
       [] h = "closed" -> { Call(r, e) }
       [] OTHER -> { Throw(Call(r, e), "CRASH"), Call(r, e) }

\* RmManager::create_file(tab, record_size)
RmCreateFile(r, tab, size) ==
  IF tab \in DOMAIN Dir(r.st).recs THEN Throw(r, "FileExistsError")
  ELSE Call([r EXCEPT !.st = SetDir(r.st, [Dir(r.st) EXCEPT !.recs = Put(@, tab, size)])],
            Ev("create_file", tab, <<>>, "", size))

\* RmManager::destroy_file(tab)
RmDestroyFile(r, tab) ==
  IF tab \notin DOMAIN Dir(r.st).recs THEN Throw(r, "FileNotFoundError")
  ELSE Call([r EXCEPT !.st = SetDir(r.st, [Dir(r.st) EXCEPT !.recs = Erase(@, tab)])],
            Ev("destroy_file", tab, <<>>, "", 0))

\* RmManager::open_file(tab): the handle is produced, not yet registered
RmOpenFile(r, tab) ==
  IF tab \notin DOMAIN Dir(r.st).recs THEN Throw(r, "FileNotFoundError")
  ELSE Call(r, Ev("open_file", tab, <<>>, "", 0))

\* IxManager::exists(tab, names)
IxExists(s, tab, names) == get_index_name(tab, names) \in Dir(s).idxs

\* IxManager::create_index(tab, cols)
IxCreateIndex(r, tab, cols) ==
  LET key == get_index_name_cols(tab, cols) IN
  IF key \in Dir(r.st).idxs THEN Throw(r, "IndexExistsError")
  ELSE Call([r EXCEPT !.st = SetDir(r.st, [Dir(r.st) EXCEPT !.idxs = @ \cup {key}])],
            Ev("create_index", tab, key[2], "", SumLen(cols)))

\* IxManager::open_index(tab, cols): the handle is produced, not yet registered
IxOpenIndex(r, key) ==
  IF key \notin Dir(r.st).idxs THEN Throw(r, "FileNotFoundError")
  ELSE Call(r, Ev("open_index", key[1], key[2], "", 0))

\* IxManager::destroy_index(tab, cols)
IxDestroyIndex(r, key) ==
  IF key \notin Dir(r.st).idxs THEN Throw(r, "FileNotFoundError")
  ELSE Call([r EXCEPT !.st = SetDir(r.st, [Dir(r.st) EXCEPT !.idxs = @ \ {key}])],
            Ev("destroy_index", key[1], key[2], "", 0))

\* a handle that was produced or registered goes out of scope; when it is
\* still open it is lost without a close
Release(r, tab, names, h) ==
  IF h = "open" THEN Call(r, Ev("leak", tab, names, h, 0)) ELSE r

\* a running result r goes on to the results X of the next statement; one
\* that threw or crashed stays as it is
Step(r, X) == IF Running(r) THEN X ELSE {r}

(* ------------------------------ SmManager ------------------------------ *)
\* SmManager::is_dir, relative to the working directory
is_dir(s, name) == Append(s.cwd, name) \in DOMAIN s.fs

\* create_db, lines 50-77: the directory, its metadata file and its log file
MakeDb(s, name) ==
    LET target == Append(s.cwd, name)
        new_db == [name_ |-> name, tabs_ |-> EmptyDb.tabs_]
        r1 == Call(Ok([s EXCEPT !.fs = Put(s.fs, target, NewDir)]),
                   Ev("mkdir", name, <<>>, "", 0))
        r2 == Call([r1 EXCEPT !.st.cwd = target], Ev("chdir", name, <<>>, "", 0))
        r3 == Call([r2 EXCEPT !.st = SetDir(r2.st, [Dir(r2.st) EXCEPT !.meta = WriteMeta(new_db)])],
                   Ev("write_meta", name, <<>>, "", 0))
        r4 == Call([r3 EXCEPT !.st = SetDir(r3.st, [Dir(r3.st) EXCEPT !.log = TRUE])],
                   Ev("create_log", name, <<>>, "", 0))
        r5 == Call([r4 EXCEPT !.st.cwd = s.cwd], Ev("chdir", "..", <<>>, "", 0))
    IN r5

\* create_db with the existence test after the metadata write instead of
\* before everything: the fault C7 rules out
create_db_LateCheck(s, name) ==
  IF is_dir(s, name)
  THEN LET target == Append(s.cwd, name)
           new_db == [name_ |-> name, tabs_ |-> EmptyDb.tabs_]
       IN { Throw(Call(Ok([s EXCEPT !.fs[target].meta = WriteMeta(new_db)]),
                       Ev("write_meta", name, <<>>, "", 0)),
                  "DatabaseExistsError") }
  ELSE { MakeDb(s, name) }

create_db(s, name) ==
  IF is_dir(s, name) THEN { Throw(Ok(s), "DatabaseExistsError") }
  ELSE { MakeDb(s, name) }

drop_db(s, name) ==
  IF ~is_dir(s, name) THEN { Throw(Ok(s), "DatabaseNotFoundError") }
  ELSE
    LET target == Append(s.cwd, name)
        keep == { p \in DOMAIN s.fs : ~IsPrefix(target, p) }
    IN { Call(Ok([s EXCEPT !.fs = [p \in keep |-> s.fs[p]]]),
              Ev("rm_r", name, <<>>, "", 0)) }

flush_meta(r) ==
  Call([r EXCEPT !.st = SetDir(r.st, [Dir(r.st) EXCEPT !.meta = WriteMeta(r.st.db)])],
       Ev("write_meta", r.st.db.name_, <<>>, "", 0))

\* open_db, lines 114-118: the indexes of one table, in the order of its list
RECURSIVE LoadIndexes(_, _, _)
LoadIndexes(r, tab, idxs) ==
  IF idxs = <<>> \/ ~Running(r) THEN r
  ELSE
    LET key == get_index_name_cols(tab, idxs[1].cols)
        r1 == IxOpenIndex(r, key)
        r2 == IF ~Running(r1) THEN r1
              ELSE IF key \in DOMAIN r1.st.ihs
                   THEN Release(r1, key[1], key[2], "open")
                   ELSE [r1 EXCEPT !.st.ihs = Put(@, key, "open")]
    IN LoadIndexes(r2, tab, Tail(idxs))

\* open_db, lines 109-119: the tables of db_, walked in the order given
RECURSIVE LoadTables(_, _)
LoadTables(r, order) ==
  IF order = <<>> \/ ~Running(r) THEN r
  ELSE
    LET tab == order[1]
        r1 == RmOpenFile(r, tab)
        old == IF tab \in DOMAIN r.st.fhs THEN r.st.fhs[tab] ELSE "null"
        r2 == IF ~Running(r1) THEN r1
              ELSE Release([r1 EXCEPT !.st.fhs = Put(@, tab, "open")], tab, <<>>, old)
        r3 == IF ~Running(r2) THEN r2
              ELSE LoadIndexes(r2, tab, r2.st.db.tabs_[tab].indexes)
    IN LoadTables(r3, Tail(order))

\* the catch block of open_db: the exception is printed and not rethrown
Swallow(r) ==
  IF r.exc \in {"none", "CRASH"} THEN r
  ELSE Call([r EXCEPT !.exc = "none"], Ev("caught", r.exc, <<>>, "", 0))

open_db(s, name) ==
  IF ~is_dir(s, name) THEN { Swallow(Throw(Ok(s), "UnixError")) }
  ELSE
    LET r1 == Call(Ok([s EXCEPT !.cwd = Append(s.cwd, name)]),
                   Ev("chdir", name, <<>>, "", 0))
        meta == Dir(r1.st).meta
    IN IF ~meta.present THEN { Swallow(Throw(r1, "MetaFormatError")) }
       ELSE
         LET r2 == Call([r1 EXCEPT !.st.db = ReadMeta(meta)],
                        Ev("read_meta", name, <<>>, "", 0))
         IN { Swallow(LoadTables(r2, q)) : q \in Orders(DOMAIN r2.st.db.tabs_) }

RECURSIVE CloseFiles(_, _)
CloseFiles(R, tabs) ==
  IF tabs = <<>> THEN R
  ELSE CloseFiles(UNION { Step(r, CloseFile(r, tabs[1])) : r \in R }, Tail(tabs))

RECURSIVE CloseIndexes(_, _)
CloseIndexes(R, keys) ==
  IF keys = <<>> THEN R
  ELSE CloseIndexes(UNION { Step(r, CloseIndex(r, keys[1])) : r \in R }, Tail(keys))

\* close_db that writes the metadata file after it has closed the handles
\* instead of first: the fault C9 rules out
close_db_FlushLast(s) ==
  LET R2 == CloseFiles({Ok(s)}, SetToSeq(DOMAIN s.fhs))
      R3 == CloseIndexes(R2, SetToSeq(DOMAIN s.ihs))
      Clear(r) == { [flush_meta(r) EXCEPT !.st.db = EmptyDb, !.st.fhs = EmptyMap,
                                          !.st.ihs = EmptyMap] }
  IN UNION { Step(r, Clear(r)) : r \in R3 }

close_db(s) ==
  LET r1 == flush_meta(Ok(s))
      R2 == CloseFiles({r1}, SetToSeq(DOMAIN s.fhs))
      R3 == CloseIndexes(R2, SetToSeq(DOMAIN s.ihs))
      Clear(r) == { [r EXCEPT !.st.db = EmptyDb, !.st.fhs = EmptyMap, !.st.ihs = EmptyMap] }
  IN UNION { Step(r, Clear(r)) : r \in R3 }

\* BuildCols with "curr_offset = col_def.len" for "curr_offset += col_def.len":
\* the fault C4 rules out
RECURSIVE BuildCols_LastLen(_, _, _)
BuildCols_LastLen(tab_name, col_defs, curr_offset) ==
  IF col_defs = <<>> THEN <<>>
  ELSE LET col_def == col_defs[1]
           col == [tab_name |-> tab_name, name |-> col_def.name, type |-> col_def.type,
                   len |-> col_def.len, offset |-> curr_offset, index |-> FALSE]
       IN <<col>> \o BuildCols_LastLen(tab_name, Tail(col_defs), col_def.len)

\* create_table, lines 215-227: the column metadata, with the running offset
RECURSIVE BuildCols(_, _, _)
BuildCols(tab_name, col_defs, curr_offset) ==
  IF col_defs = <<>> THEN <<>>
  ELSE LET col_def == col_defs[1]
           col == [tab_name |-> tab_name, name |-> col_def.name, type |-> col_def.type,
                   len |-> col_def.len, offset |-> curr_offset, index |-> FALSE]
       IN <<col>> \o BuildCols(tab_name, Tail(col_defs), curr_offset + col_def.len)

\* create_table, lines 229-230: the final value of curr_offset
RecordSize(col_defs) == SumLen(col_defs)

create_table(s, tab_name, col_defs) ==
  IF is_table(s.db, tab_name) THEN { Throw(Ok(s), "TableExistsError") }
  ELSE
    LET tab == [name |-> tab_name, cols |-> BuildCols(tab_name, col_defs, 0), indexes |-> <<>>]
        r1 == RmCreateFile(Ok(s), tab_name, RecordSize(col_defs))
        r2 == IF ~Running(r1) THEN r1
              ELSE [r1 EXCEPT !.st.db.tabs_ = Put(@, tab_name, tab)]
        r3 == IF ~Running(r2) THEN r2 ELSE RmOpenFile(r2, tab_name)
        r4 == IF ~Running(r3) THEN r3
              ELSE IF tab_name \in DOMAIN r3.st.fhs
                   THEN Release(r3, tab_name, <<>>, "open")
                   ELSE [r3 EXCEPT !.st.fhs = Put(@, tab_name, "open")]
        r5 == IF ~Running(r4) THEN r4 ELSE flush_meta(r4)
    IN { r5 }

\* drop_table, lines 255-266: the indexes of the table, in the order of its list
RECURSIVE DropIndexes(_, _, _)
DropIndexes(R, tab_name, idxs) ==
  IF idxs = <<>> THEN R
  ELSE
    LET index_name == get_index_name_cols(tab_name, idxs[1].cols)
        Lookup(r) == { IF index_name \in DOMAIN r.st.ihs THEN r
                       ELSE [r EXCEPT !.st.ihs = Put(@, index_name, "null")] }
        Destroy(r) == { IxDestroyIndex(r, index_name) }
        Unreg(r) == { Release([r EXCEPT !.st.ihs = Erase(@, index_name)],
                              index_name[1], index_name[2], r.st.ihs[index_name]) }
        R1 == UNION { Step(r, Lookup(r)) : r \in R }
        R2 == UNION { Step(r, CloseIndex(r, index_name)) : r \in R1 }
        R3 == UNION { Step(r, Destroy(r)) : r \in R2 }
        R4 == UNION { Step(r, Unreg(r)) : r \in R3 }
    IN DropIndexes(R4, tab_name, Tail(idxs))

\* drop_table without line 269, fhs_.erase(tab_name): the fault C16 rules out
drop_table_KeepHandle(s, tab_name) ==
  IF ~is_table(s.db, tab_name) THEN { Throw(Ok(s), "TableNotFoundError") }
  ELSE
    LET r1 == IF tab_name \in DOMAIN s.fhs THEN Ok(s)
              ELSE Ok([s EXCEPT !.fhs = Put(@, tab_name, "null")])
        Destroy(r) == { RmDestroyFile(r, tab_name) }
        Unreg(r) == { [r EXCEPT !.st.db.tabs_ = Erase(@, tab_name)] }
        R3 == UNION { Step(r, Destroy(r)) : r \in CloseFile(r1, tab_name) }
        R4 == DropIndexes(R3, tab_name, s.db.tabs_[tab_name].indexes)
    IN UNION { Step(r, Unreg(r)) : r \in R4 }

drop_table(s, tab_name) ==
  IF ~is_table(s.db, tab_name) THEN { Throw(Ok(s), "TableNotFoundError") }
  ELSE
    LET r1 == IF tab_name \in DOMAIN s.fhs THEN Ok(s)
              ELSE Ok([s EXCEPT !.fhs = Put(@, tab_name, "null")])
        Destroy(r) == { RmDestroyFile(r, tab_name) }
        Unreg(r) == { Release([r EXCEPT !.st.db.tabs_ = Erase(@, tab_name),
                                        !.st.fhs = Erase(@, tab_name)],
                              tab_name, <<>>, r.st.fhs[tab_name]) }
        R3 == UNION { Step(r, Destroy(r)) : r \in CloseFile(r1, tab_name) }
        R4 == DropIndexes(R3, tab_name, s.db.tabs_[tab_name].indexes)
    IN UNION { Step(r, Unreg(r)) : r \in R4 }

\* create_index, lines 284-289: the first exception of the column lookups
ColumnLookup(db, tab_name, col_names) ==
  IF col_names = <<>> THEN "none"
  ELSE IF ~is_table(db, tab_name) THEN "TableNotFoundError"
  ELSE IF \E i \in 1..Len(col_names) : ColPos(db.tabs_[tab_name], col_names[i]) = 0
       THEN "ColumnNotFoundError"
  ELSE "none"

\* MakeIndexMeta without the loop of lines 300-303 that adds up the column
\* lengths: the fault C15 rules out
MakeIndexMeta_NoSum(tab_name, index_columns) ==
  [tab_name |-> tab_name, col_tot_len |-> 0,
   col_num |-> Len(index_columns), cols |-> index_columns]

\* create_index, lines 298-303: the IndexMeta of the new index
MakeIndexMeta(tab_name, index_columns) ==
  [tab_name |-> tab_name, col_tot_len |-> SumLen(index_columns),
   col_num |-> Len(index_columns), cols |-> index_columns]

create_index(s, tab_name, col_names) ==
  IF IxExists(s, tab_name, col_names) THEN { Throw(Ok(s), "IndexExistsError") }
  ELSE IF ColumnLookup(s.db, tab_name, col_names) # "none"
       THEN { Throw(Ok(s), ColumnLookup(s.db, tab_name, col_names)) }
  ELSE
    LET index_columns ==
          [i \in 1..Len(col_names) |->
             s.db.tabs_[tab_name].cols[ColPos(s.db.tabs_[tab_name], col_names[i])]]
        index_name == get_index_name(tab_name, col_names)
        r1 == IxCreateIndex(Ok(s), tab_name, index_columns)
        r2 == IF ~Running(r1) THEN r1 ELSE IxOpenIndex(r1, index_name)
        r3 == IF ~Running(r2) THEN r2
              ELSE IF index_name \in DOMAIN r2.st.ihs
                   THEN Release(r2, tab_name, col_names, "open")
                   ELSE [r2 EXCEPT !.st.ihs = Put(@, index_name, "open")]
        old == IF is_table(r3.st.db, tab_name) THEN r3.st.db.tabs_[tab_name] ELSE DefaultTab
        r4 == IF ~Running(r3) THEN r3
              ELSE [r3 EXCEPT !.st.db.tabs_ =
                      Put(@, tab_name,
                          [old EXCEPT !.indexes =
                             Append(@, MakeIndexMeta(tab_name, index_columns))])]
    IN { r4 }

\* lines 326-327 and 349-350: get_table(tab_name).get_index_meta(col_names),
\* then indexes.erase
EraseIndexMeta(r, tab_name, col_names) ==
  IF ~is_table(r.st.db, tab_name) THEN Throw(r, "TableNotFoundError")
  ELSE LET i == IndexPos(r.st.db.tabs_[tab_name], col_names) IN
       IF i = 0 THEN Throw(r, "IndexNotFoundError")
       ELSE [r EXCEPT !.st.db.tabs_[tab_name].indexes = RemoveAt(@, i)]

\* drop_index(tab_name, col_names)
drop_index(s, tab_name, col_names) ==
  LET index_name == get_index_name(tab_name, col_names)
      r1 == IF index_name \in DOMAIN s.ihs THEN Ok(s)
            ELSE Ok([s EXCEPT !.ihs = Put(@, index_name, "null")])
      Destroy(r) == { IxDestroyIndex(r, get_index_name(tab_name, col_names)) }
      Unreg(r) == { Release([r EXCEPT !.st.ihs = Erase(@, index_name)],
                            tab_name, col_names, r.st.ihs[index_name]) }
      Meta(r) == { EraseIndexMeta(r, tab_name, col_names) }
      R3 == UNION { Step(r, Destroy(r)) : r \in CloseIndex(r1, index_name) }
      R4 == UNION { Step(r, Unreg(r)) : r \in R3 }
  IN UNION { Step(r, Meta(r)) : r \in R4 }

\* drop_index(tab_name, cols) without lines 349-350, which take the IndexMeta
\* out of the table's list: the fault C6 rules out
drop_index_cols_KeepMeta(s, tab_name, cols) ==
  LET index_name == get_index_name_cols(tab_name, cols)
      r1 == IF index_name \in DOMAIN s.ihs THEN Ok(s)
            ELSE Ok([s EXCEPT !.ihs = Put(@, index_name, "null")])
      Destroy(r) == { IxDestroyIndex(r, get_index_name_cols(tab_name, cols)) }
      col_names == [i \in 1..Len(cols) |-> cols[i].name]
      Unreg(r) == { Release([r EXCEPT !.st.ihs = Erase(@, get_index_name_cols(tab_name, cols))],
                            tab_name, col_names, r.st.ihs[index_name]) }
      R3 == UNION { Step(r, Destroy(r)) : r \in CloseIndex(r1, index_name) }
  IN UNION { Step(r, Unreg(r)) : r \in R3 }

\* drop_index(tab_name, cols)
drop_index_cols(s, tab_name, cols) ==
  LET index_name == get_index_name_cols(tab_name, cols)
      r1 == IF index_name \in DOMAIN s.ihs THEN Ok(s)
            ELSE Ok([s EXCEPT !.ihs = Put(@, index_name, "null")])
      Destroy(r) == { IxDestroyIndex(r, get_index_name_cols(tab_name, cols)) }
      col_names == [i \in 1..Len(cols) |-> cols[i].name]
      Unreg(r) == { Release([r EXCEPT !.st.ihs = Erase(@, get_index_name_cols(tab_name, cols))],
                            tab_name, col_names, r.st.ihs[index_name]) }
      Meta(r) == { EraseIndexMeta(r, tab_name, col_names) }
      R3 == UNION { Step(r, Destroy(r)) : r \in CloseIndex(r1, index_name) }
      R4 == UNION { Step(r, Unreg(r)) : r \in R3 }
  IN UNION { Step(r, Meta(r)) : r \in R4 }

(* ------------------------------ the machine ---------------------------- *)
State == [cwd |-> cwd, fs |-> fs, db |-> db_, fhs |-> fhs_, ihs |-> ihs_]

\* the column metadata a caller of drop_index(tab_name, cols) holds for a name
\* list: the stored ColMeta of each column, or one made up for a name the
\* table does not have
MetasOf(db, tab_name, col_names) ==
  [i \in 1..Len(col_names) |->
     IF is_table(db, tab_name) /\ ColPos(db.tabs_[tab_name], col_names[i]) # 0
     THEN db.tabs_[tab_name].cols[ColPos(db.tabs_[tab_name], col_names[i])]
     ELSE [tab_name |-> tab_name, name |-> col_names[i], type |-> "INT", len |-> 4,
           offset |-> 0, index |-> FALSE]]

\* the last call made on the manager: the method, the database or table it
\* named, and the exception it ended with
NoCall == [op |-> "none", name |-> "", exc |-> "none"]

\* a newly constructed SmManager in the start directory, over the files f
Fresh(f) == [cwd |-> <<>>, fs |-> f, db |-> EmptyDb, fhs |-> EmptyMap, ihs |-> EmptyMap]

\* the state a call that returned normally leaves
St(R) == (CHOOSE r \in R : Running(r)).st

EmptyFs == [p \in {<<>>} |-> NewDir]

\* The files earlier runs of the program left in the start directory.
\* CreatedFs: create_db("d1") and nothing else.
CreatedFs == St(create_db(Fresh(EmptyFs), "d1")).fs

\* ClosedFs: a run that opened d1, created table t1 and an index on c1, and
\* closed the database.
ClosedFs ==
  LET s1 == St(open_db(Fresh(CreatedFs), "d1"))
      d == CHOOSE x \in TableDefs : x[1] = "t1"
      s2 == St(create_table(s1, d[1], d[2]))
      s3 == St(create_index(s2, "t1", <<"c1">>))
  IN St(close_db(s3)).fs

\* KilledFs: a later run that opened d1, dropped the index and ended without
\* close_db; drop_index does not write the metadata file.
KilledFs ==
  LET s1 == St(open_db(Fresh(ClosedFs), "d1"))
  IN St(drop_index(s1, "t1", <<"c1">>)).fs

InitialFs == { CreatedFs, ClosedFs, KilledFs }

Init ==
  /\ cwd = <<>>
  /\ fs \in InitialFs
  /\ db_ = EmptyDb
  /\ fhs_ = EmptyMap
  /\ ihs_ = EmptyMap
  /\ crashed = FALSE
  /\ last = NoCall
  /\ nops = 0

\* the call op(name, ...) ends with one of the results R
Return(op, name, R) ==
  /\ ~crashed
  /\ nops < MaxOps
  /\ \E r \in R :
       /\ fs' = r.st.fs
       /\ crashed' = (r.exc = "CRASH")
       /\ IF r.exc = "CRASH"
          THEN \* the process is gone, and its memory and working directory with it
               cwd' = <<>> /\ db_' = EmptyDb /\ fhs_' = EmptyMap /\ ihs_' = EmptyMap
          ELSE cwd' = r.st.cwd /\ db_' = r.st.db /\ fhs_' = r.st.fhs /\ ihs_' = r.st.ihs
       /\ last' = [op |-> op, name |-> name, exc |-> r.exc]
  /\ nops' = nops + 1

CreateDb ==
  \E n \in DbNames :
    /\ Len(cwd) < MaxDepth
    /\ Return("create_db", n, create_db(State, n))

DropDb == \E n \in DbNames : Return("drop_db", n, drop_db(State, n))

OpenDb == \E n \in DbNames : Return("open_db", n, open_db(State, n))

CloseDb == Return("close_db", "", close_db(State))

CreateTable ==
  \E d \in TableDefs : Return("create_table", d[1], create_table(State, d[1], d[2]))

DropTable == \E t \in TabNames : Return("drop_table", t, drop_table(State, t))

CreateIndex ==
  \E t \in TabNames, c \in IxColLists :
    Return("create_index", t, create_index(State, t, c))

DropIndex ==
  \E t \in TabNames, c \in IxColLists :
    Return("drop_index", t, drop_index(State, t, c))

DropIndexCols ==
  \E t \in TabNames, c \in IxColLists :
    Return("drop_index_cols", t, drop_index_cols(State, t, MetasOf(db_, t, c)))

\* the process ends (with or without close_db) and a new one constructs its
\* SmManager in the start directory, over the files the old one left
Restart ==
  /\ nops < MaxOps
  /\ nops > 0
  /\ cwd' = <<>>
  /\ db_' = EmptyDb
  /\ fhs_' = EmptyMap
  /\ ihs_' = EmptyMap
  /\ crashed' = FALSE
  /\ last' = [NoCall EXCEPT !.op = "restart"]
  /\ nops' = nops + 1
  /\ UNCHANGED fs

Next ==
  \/ CreateDb
  \/ DropDb
  \/ OpenDb
  \/ CloseDb
  \/ CreateTable
  \/ DropTable
  \/ CreateIndex
  \/ DropIndex
  \/ DropIndexCols
  \/ Restart

Spec == Init /\ [][Next]_vars

(* ------------------------------ claims --------------------------------- *)
\* control is with the caller: the last call returned or threw, the process lives
AtCaller == ~crashed

\* the index identities (table name, ordered column names) the schema records
SchemaIndexes(db) ==
  UNION { { <<t, ColNames(db.tabs_[t].indexes[i].cols)>> : i \in 1..Len(db.tabs_[t].indexes) }
          : t \in DOMAIN db.tabs_ }

\* C1 (I1): whenever a call has returned to the caller, the table names of the
\* schema are exactly the keys of the table-handle registry, and every
\* registered table handle is an open one.
I1_TablesMatchHandles ==
  AtCaller =>
    /\ DOMAIN db_.tabs_ = DOMAIN fhs_
    /\ \A t \in DOMAIN fhs_ : fhs_[t] = "open"

\* C2 (I2): whenever a call has returned to the caller, the index identities
\* of the schema are exactly the keys of the index-handle registry, and every
\* registered index handle is an open one.
I2_IndexesMatchHandles ==
  AtCaller =>
    /\ SchemaIndexes(db_) = DOMAIN ihs_
    /\ \A k \in DOMAIN ihs_ : ihs_[k] = "open"

\* no index list of the schema holds two entries on the same ordered columns
NoDuplicateIndex(db) ==
  \A t \in DOMAIN db.tabs_ :
    \A i, j \in 1..Len(db.tabs_[t].indexes) :
      i # j => ColNames(db.tabs_[t].indexes[i].cols) # ColNames(db.tabs_[t].indexes[j].cols)

\* C3 (I4): whenever a call has returned to the caller, no table's index list
\* holds two IndexMeta entries on the same ordered column list (table names
\* are the keys of tabs_ and cannot repeat).
I4_NoDuplicateIndex == AtCaller => NoDuplicateIndex(db_)

\* the offset law on stored column metadata: column i starts where the
\* columns before it end
OffsetLaw(cols) ==
  \A i \in 1..Len(cols) : cols[i].offset = SumLen(SubSeq(cols, 1, i - 1))

\* stored column metadata agrees with the definitions: same names, types and
\* lengths at the same positions
SameColumns(cols, col_defs) ==
  /\ Len(cols) = Len(col_defs)
  /\ \A i \in 1..Len(cols) :
       /\ cols[i].name = col_defs[i].name
       /\ cols[i].type = col_defs[i].type
       /\ cols[i].len = col_defs[i].len

DefsOf(tab_name) == (CHOOSE d \in TableDefs : d[1] = tab_name)[2]

\* C4 (I3): a create_table that succeeds stores the columns in the order of
\* column_defs with offset = sum of the lengths of the columns before, and
\* hands create_file the sum of all lengths; and every table the schema holds
\* after any later call still has exactly those columns, offsets and order
\* (a table that create_index inserted on its own has no columns at all).
I3_OffsetLaw ==
  /\ \A d \in TableDefs :
       \A r \in create_table(State, d[1], d[2]) :
         r.exc = "none" =>
           /\ SameColumns(r.st.db.tabs_[d[1]].cols, d[2])
           /\ OffsetLaw(r.st.db.tabs_[d[1]].cols)
           /\ \E i \in 1..Len(r.calls) :
                /\ r.calls[i].call = "create_file"
                /\ r.calls[i].tab = d[1]
                /\ r.calls[i].n = SumLen(d[2])
           /\ r.st.fs[r.st.cwd].recs[d[1]] = SumLen(d[2])
  /\ \A t \in DOMAIN db_.tabs_ :
       \/ db_.tabs_[t].cols = <<>>
       \/ /\ SameColumns(db_.tabs_[t].cols, DefsOf(t))
          /\ OffsetLaw(db_.tabs_[t].cols)

\* C4 witness: a three-column table was created and an index put on it since
I3_Witness ==
  /\ last.op = "create_index"
  /\ last.exc = "none"
  /\ last.name \in DOMAIN db_.tabs_
  /\ Len(db_.tabs_[last.name].cols) = 3
  /\ db_.tabs_[last.name].cols[3].offset = 12
  /\ Len(db_.tabs_[last.name].indexes) > 0

\* what create/drop symmetry compares: schema and both registries
Catalog(s) == <<s.db, s.fhs, s.ihs>>

\* C5: with a database open and table T absent from the schema,
\* create_table(T, cols) followed at once by drop_table(T) leaves schema,
\* table-handle registry and index-handle registry as they were.
OpenDatabase == db_.name_ # ""

CreateDropSymmetry ==
  (AtCaller /\ OpenDatabase) =>
    \A d \in TableDefs :
      ~is_table(db_, d[1]) =>
        \A r1 \in create_table(State, d[1], d[2]) :
          \A r2 \in (IF r1.exc = "CRASH" THEN {} ELSE drop_table(r1.st, d[1])) :
            r2.exc # "CRASH" => Catalog(r2.st) = Catalog(State)

\* C6: from any state, drop_index by column names and drop_index by the
\* corresponding column metadata have the same results: the same end state
\* (schema, both registries, files), the same exception, and the same
\* close/destroy calls on the same handle and file, in the same order.
DropIndexEquivalence ==
  AtCaller =>
    \A t \in TabNames, c \in IxColLists :
      drop_index(State, t, c) = drop_index_cols(State, t, MetasOf(db_, t, c))

\* C6 witness: an index on two columns was just dropped through the metadata
\* shape, and another index of that table is still there
DropIndexEquivalence_Witness ==
  /\ last.op = "drop_index_cols"
  /\ last.exc = "none"
  /\ is_table(db_, last.name)
  /\ Len(db_.tabs_[last.name].indexes) > 0
  /\ <<last.name, <<"c1", "c2">>>> \notin SchemaIndexes(db_)
  /\ <<last.name, <<"c1", "c2">>>> \notin DOMAIN ihs_
  /\ SchemaIndexes(db_) = DOMAIN ihs_

\* C7: create_db(name) with the directory already there throws
\* DatabaseExistsError and does nothing else: no call on the file system, and
\* working directory, files, schema and registries are as before.
CreateDbExists ==
  AtCaller =>
    \A n \in DbNames :
      is_dir(State, n) => create_db(State, n) = { Throw(Ok(State), "DatabaseExistsError") }

\* C7 witness: a create_db has just failed on an existing directory whose
\* metadata file lists a table
CreateDbExists_Witness ==
  /\ last.op = "create_db"
  /\ last.exc = "DatabaseExistsError"
  /\ is_dir(State, last.name)
  /\ DOMAIN fs[Append(cwd, last.name)].meta.tabs_ # {}

\* the step taken is the call whose results are R, ending with exception e
Took(R) ==
  \E r \in R :
    /\ last'.exc = r.exc
    /\ fs' = r.st.fs
    /\ r.exc # "CRASH" => <<cwd', db_', fhs_', ihs_'>> = <<r.st.cwd, r.st.db, r.st.fhs, r.st.ihs>>

Untouched == UNCHANGED <<cwd, fs, db_, fhs_, ihs_>>

\* the table's index list has no index on these columns
IndexAbsent(db, t, c) == ~is_table(db, t) \/ IndexPos(db.tabs_[t], c) = 0

\* C8: a call whose precondition fails on the in-memory schema ends with the
\* typed error and leaves files, schema and both registries untouched:
\* create_table on a table of the schema, drop_table on a table not in it,
\* create_index on an identity of the schema, drop_index (either shape) on an
\* index that is not in the table's index list, drop_db on a missing directory.
PreconditionBeforeEffect ==
  [][ /\ (last'.op = "create_table" /\ is_table(db_, last'.name))
         => (last'.exc = "TableExistsError" /\ Untouched)
      /\ (last'.op = "drop_table" /\ ~is_table(db_, last'.name))
         => (last'.exc = "TableNotFoundError" /\ Untouched)
      /\ (last'.op = "drop_db" /\ ~is_dir(State, last'.name))
         => (last'.exc = "DatabaseNotFoundError" /\ Untouched)
      /\ \A t \in TabNames, c \in IxColLists :
           /\ ( /\ last'.op = "create_index" /\ last'.name = t
                /\ <<t, c>> \in SchemaIndexes(db_)
                /\ Took(create_index(State, t, c)) )
              => (last'.exc = "IndexExistsError" /\ Untouched)
           /\ ( /\ last'.op = "drop_index" /\ last'.name = t
                /\ IndexAbsent(db_, t, c)
                /\ Took(drop_index(State, t, c)) )
              => (last'.exc \notin {"none", "CRASH"} /\ Untouched)
           /\ ( /\ last'.op = "drop_index_cols" /\ last'.name = t
                /\ IndexAbsent(db_, t, c)
                /\ Took(drop_index_cols(State, t, MetasOf(db_, t, c))) )
              => (last'.exc \notin {"none", "CRASH"} /\ Untouched)
    ]_vars

\* the metadata file of the working directory, and everything else in the
\* file system
MetaFile(s) == s.fs[s.cwd].meta

OtherFiles(s) == [p \in DOMAIN s.fs |-> [s.fs[p] EXCEPT !.meta = NoMeta]]

Closes(calls, c, tab, names) ==
  \E i \in 2..Len(calls) :
    calls[i].call = c /\ calls[i].tab = tab /\ calls[i].cols = names

\* C9: with a database open, close_db first writes the schema as it is to the
\* metadata file of that database's directory and writes no other file; it
\* then closes every registered table handle and every registered index
\* handle; when it returns, the schema has no name and no tables and both
\* registries are empty.
CloseDbPostcondition ==
  (AtCaller /\ OpenDatabase) =>
    /\ cwd # <<>>
    /\ cwd[Len(cwd)] = db_.name_
    /\ \A r \in close_db(State) :
         /\ r.exc \in {"none", "CRASH"}
         /\ r.calls # <<>>
         /\ r.calls[1].call = "write_meta"
         /\ \A i \in 2..Len(r.calls) : r.calls[i].call \in {"close_file", "close_index"}
         /\ MetaFile(r.st) = WriteMeta(db_)
         /\ OtherFiles(r.st) = OtherFiles(State)
         /\ r.st.cwd = cwd
         /\ r.exc = "none" =>
              /\ r.st.db = EmptyDb
              /\ DOMAIN r.st.fhs = {}
              /\ DOMAIN r.st.ihs = {}
              /\ \A t \in DOMAIN fhs_ : Closes(r.calls, "close_file", t, <<>>)
              /\ \A k \in DOMAIN ihs_ : Closes(r.calls, "close_index", k[1], k[2])

\* C9 witness: close_db has just returned in a database directory whose
\* metadata file now lists a table with an index
CloseDbPostcondition_Witness ==
  /\ last.op = "close_db"
  /\ last.exc = "none"
  /\ cwd # <<>>
  /\ db_ = EmptyDb
  /\ DOMAIN fhs_ = {}
  /\ DOMAIN ihs_ = {}
  /\ fs[cwd].meta.name_ = cwd[Len(cwd)]
  /\ \E t \in DOMAIN fs[cwd].meta.tabs_ : Len(fs[cwd].meta.tabs_[t].indexes) > 0

\* no database is open: never opened, or closed by close_db
NoDatabaseOpen == db_ = EmptyDb /\ DOMAIN fhs_ = {} /\ DOMAIN ihs_ = {}

\* C10: close_db with no database open is a no-op: schema and registries stay
\* empty, and no file is created or modified.
CloseDbIdempotent ==
  [][ (last'.op = "close_db" /\ NoDatabaseOpen) => (last'.exc = "none" /\ Untouched) ]_vars

\* the methods that change the structure of the schema
StructuralOps == {"create_table", "drop_table", "create_index", "drop_index", "drop_index_cols"}

\* C11: when create_table, drop_table, create_index or drop_index (either
\* shape) returns normally on an open database, the metadata file of the
\* working directory holds the in-memory schema as it now is: same name, same
\* tables, columns and index lists.
PersistenceAfterMutation ==
  [][ (last'.op \in StructuralOps /\ last'.exc = "none" /\ OpenDatabase)
        => fs'[cwd'].meta = WriteMeta(db_') ]_vars

\* some index of the table's list includes the column
Covered(tab, name) ==
  \E i \in 1..Len(tab.indexes) :
    \E k \in 1..Len(tab.indexes[i].cols) : tab.indexes[i].cols[k].name = name

\* the stored flag of every column says whether an index covers the column
IndexedFlags(db) ==
  \A t \in DOMAIN db.tabs_ :
    \A i \in 1..Len(db.tabs_[t].cols) :
      db.tabs_[t].cols[i].index <=> Covered(db.tabs_[t], db.tabs_[t].cols[i].name)

\* C12: after a create_table, create_index or drop_index that returned
\* normally, the stored ColMeta.index flag of every column of every table is
\* true exactly when some index in the table's index list includes the column.
IndexedFlagConsistency ==
  ( /\ AtCaller
    /\ last.op \in {"create_table", "create_index", "drop_index", "drop_index_cols"}
    /\ last.exc = "none" )
  => IndexedFlags(db_)

\* every table of db has a registered open handle in fhs, and every index
\* of its index lists one in ihs
FullyLoaded(db, fhs, ihs) ==
  /\ \A t \in DOMAIN db.tabs_ : t \in DOMAIN fhs /\ fhs[t] = "open"
  /\ \A k \in SchemaIndexes(db) : k \in DOMAIN ihs /\ ihs[k] = "open"

\* open_db(name) can complete from s: the directory is there, it has a
\* metadata file, and the record file of every table and the file of every
\* index the metadata lists are there
CanLoad(s, name) ==
  /\ is_dir(s, name)
  /\ LET d == s.fs[Append(s.cwd, name)] IN
       /\ d.meta.present
       /\ DOMAIN ReadMeta(d.meta).tabs_ \subseteq DOMAIN d.recs
       /\ SchemaIndexes(ReadMeta(d.meta)) \subseteq d.idxs

\* C13: an open_db that cannot complete ends with an error at the caller and
\* leaves schema and both registries as they were; an open_db that can
\* complete returns normally with every table and every index of the loaded
\* schema registered.
OpenDbAtomic ==
  [][ last'.op = "open_db" =>
        IF CanLoad(State, last'.name)
        THEN last'.exc = "none" /\ FullyLoaded(db_', fhs_', ihs_')
        ELSE last'.exc \notin {"none", "CRASH"} /\ UNCHANGED <<db_, fhs_, ihs_>> ]_vars

\* the results of every call of open_db, close_db, create_table, drop_table,
\* create_index and drop_index (either shape) that can be made from state s
RegistryCalls(s) ==
  UNION ( { open_db(s, n) : n \in DbNames }
          \cup { close_db(s) }
          \cup { create_table(s, d[1], d[2]) : d \in TableDefs }
          \cup { drop_table(s, t) : t \in TabNames }
          \cup { create_index(s, t, c) : t \in TabNames, c \in IxColLists }
          \cup { drop_index(s, t, c) : t \in TabNames, c \in IxColLists }
          \cup { drop_index_cols(s, t, MetasOf(s.db, t, c)) : t \in TabNames, c \in IxColLists } )

\* no handle is dropped while open, and every close is given an open handle
Disciplined(calls) ==
  \A i \in 1..Len(calls) :
    /\ calls[i].call # "leak"
    /\ calls[i].call \in {"close_file", "close_index"} => calls[i].h = "open"

\* C14: in every state a sequence of calls reaches, whichever of open_db,
\* close_db, create_table, drop_table, create_index, drop_index comes next,
\* it drops no handle from a registry (by erase, replacement or a refused
\* emplace) while that handle is still open, and it issues close only on
\* handles that are registered and open: never on a closed one, never on a
\* null one.
HandleReleaseDiscipline ==
  AtCaller => \A r \in RegistryCalls(State) : Disciplined(r.calls)

\* the stored lengths of the named columns of table tab_name, in the order given
StoredLens(db, tab_name, col_names) ==
  [i \in 1..Len(col_names) |->
     [len |-> db.tabs_[tab_name].cols[ColPos(db.tabs_[tab_name], col_names[i])].len]]

\* C15: a create_index(T, [c1..cn]) that returns normally appends exactly one
\* IndexMeta to T's index list; it names T, has column count n, lists c1..cn
\* in the order given, and its total key length is the sum of the lengths of
\* c1..cn as T's column metadata stores them.
KeyLength ==
  AtCaller =>
    \A t \in TabNames, c \in IxColLists :
      \A r \in create_index(State, t, c) :
        r.exc = "none" =>
          LET before == IF is_table(db_, t) THEN db_.tabs_[t].indexes ELSE <<>>
              after == r.st.db.tabs_[t].indexes
              im == after[Len(after)]
          IN /\ Len(after) = Len(before) + 1
             /\ SubSeq(after, 1, Len(before)) = before
             /\ im.tab_name = t
             /\ im.col_num = Len(c)
             /\ ColNames(im.cols) = c
             /\ im.col_tot_len = SumLen(StoredLens(db_, t, c))

\* C15 witness: create_index has just put an index on (c1, c2) with key
\* length 4 + 8 at the end of the table's index list, after an index on c1
\* alone with key length 4
KeyLength_Witness ==
  /\ last.op = "create_index"
  /\ last.exc = "none"
  /\ is_table(db_, last.name)
  /\ LET ixs == db_.tabs_[last.name].indexes IN
       /\ Len(ixs) = 2
       /\ ColNames(ixs[1].cols) = <<"c1">>
       /\ ixs[1].col_tot_len = 4
       /\ ColNames(ixs[2].cols) = <<"c1", "c2">>
       /\ ixs[2].col_num = 2
       /\ ixs[2].col_tot_len = 12

\* the index identities table t has in schema db
IndexesOf(db, t) ==
  { <<t, ColNames(db.tabs_[t].indexes[i].cols)>> : i \in 1..Len(db.tabs_[t].indexes) }

\* C16: a drop_table(T) that returns normally leaves T out of the schema, no
\* table handle under T, no index handle under any index of T's index list,
\* T's record file and the file of every index of T's list destroyed; the
\* metadata and index list of every other table, every other table handle,
\* every index handle of another table and every other file are as before.
DropTablePostcondition ==
  AtCaller =>
    \A t \in TabNames :
      \A r \in drop_table(State, t) :
        r.exc = "none" =>
          /\ ~is_table(r.st.db, t)
          /\ t \notin DOMAIN r.st.fhs
          /\ \A k \in IndexesOf(db_, t) : k \notin DOMAIN r.st.ihs /\ k \notin Dir(r.st).idxs
          /\ t \notin DOMAIN Dir(r.st).recs
          /\ r.st.db = [db_ EXCEPT !.tabs_ = Erase(@, t)]
          /\ r.st.fhs = Erase(fhs_, t)
          /\ \A k \in DOMAIN ihs_ : k[1] # t => (k \in DOMAIN r.st.ihs /\ r.st.ihs[k] = ihs_[k])
          /\ \A k \in DOMAIN r.st.ihs : k \in DOMAIN ihs_
          /\ \A u \in DOMAIN Dir(State).recs :
               u # t => (u \in DOMAIN Dir(r.st).recs /\ Dir(r.st).recs[u] = Dir(State).recs[u])
          /\ \A k \in Dir(State).idxs : k[1] # t => k \in Dir(r.st).idxs
          /\ Dir(r.st).meta = Dir(State).meta
          /\ r.st.cwd = cwd
          /\ \A p \in DOMAIN fs : p # cwd => (p \in DOMAIN r.st.fs /\ r.st.fs[p] = fs[p])

\* C16 witness: drop_table has just removed a table that had an index, while
\* another table with its handle is still there
DropTablePostcondition_Witness ==
  /\ last.op = "drop_table"
  /\ last.exc = "none"
  /\ ~is_table(db_, last.name)
  /\ last.name \notin DOMAIN fhs_
  /\ \E k \in SchemaIndexes(ReadMeta(fs[cwd].meta)) : k[1] = last.name /\ k \notin fs[cwd].idxs
  /\ \E u \in DOMAIN db_.tabs_ : u \in DOMAIN fhs_ /\ fhs_[u] = "open"

\* C17: among the calls drop_table(T) issues, every close_index and
\* destroy_index on an index of T comes before the close_file and the
\* destroy_file on T's record file.
DropTableOrdering ==
  AtCaller =>
    \A t \in TabNames :
      \A r \in drop_table(State, t) :
        \A i, j \in 1..Len(r.calls) :
          ( /\ r.calls[i].call \in {"close_index", "destroy_index"}
            /\ r.calls[j].call \in {"close_file", "destroy_file"} )
          => i < j

\* what a failed registry lookup must leave alone: a typed error at the
\* caller, the state as it was, and no call issued
LookupFailed(r, s) ==
  /\ r.exc \notin {"none", "CRASH"}
  /\ r.st = s
  /\ r.calls = <<>>

\* C18: drop_index (either shape) on an identity with no registered index
\* handle, and drop_table on a table of the schema with no registered table
\* handle, fail at the lookup: an error reaches the caller, nothing is put
\* into a registry, no close is issued and no file is destroyed.
RegistryMissFails ==
  AtCaller =>
    /\ \A t \in TabNames, c \in IxColLists :
         get_index_name(t, c) \notin DOMAIN ihs_ =>
           /\ \A r \in drop_index(State, t, c) : LookupFailed(r, State)
           /\ \A r \in drop_index_cols(State, t, MetasOf(db_, t, c)) : LookupFailed(r, State)
    /\ \A t \in TabNames :
         (is_table(db_, t) /\ t \notin DOMAIN fhs_) =>
           \A r \in drop_table(State, t) : LookupFailed(r, State)

\* C19: with database D open, close_db() followed at once by open_db(D), in
\* the working directory close_db leaves, gives back the schema that was in
\* memory before close_db and registries with the same keys as before.
CloseOpenRoundTrip ==
  (AtCaller /\ OpenDatabase) =>
    \A r1 \in close_db(State) :
      r1.exc = "none" =>
        \A r2 \in open_db(r1.st, db_.name_) :
          r2.exc # "CRASH" =>
            /\ r2.st.db = db_
            /\ DOMAIN r2.st.fhs = DOMAIN fhs_
            /\ DOMAIN r2.st.ihs = DOMAIN ihs_

\* C20: a call of create_index or drop_index (either shape) that comes back
\* to the caller, normally or with an exception, leaves the set of table
\* names of the schema and the table-handle registry as they were.
IndexOpsKeepTables ==
  [][ ( /\ last'.op \in {"create_index", "drop_index", "drop_index_cols"}
        /\ last'.exc # "CRASH" )
      => /\ DOMAIN db_'.tabs_ = DOMAIN db_.tabs_
         /\ fhs_' = fhs_ ]_vars

====
